---- MODULE Spec2Model ----
(***************************************************************************)
(* A model of server.py, the Google Workspace admin tool server: eleven    *)
(* gw_* tool handlers, the credential provider get_directory_service, the  *)
(* error translator handle_google_error, the secret generator              *)
(* generate_temp_password and the formatter format_user.                   *)
(*                                                                         *)
(* A Python string is a sequence of tokens: the literal pieces of an       *)
(* f-string and the values spliced between them.  String literals are      *)
(* written in ASCII: an emoji of the source is written as its short code   *)
(* (":no_entry:"), an accented letter as the plain letter, the backquote   *)
(* as "(backquote)".                                                       *)
(* Optional[T] is a sequence of length 0 (None) or 1 (a value).            *)
(***************************************************************************)
EXTENDS Naturals, Sequences, FiniteSets, TLC

\* ------------------------------------------------------------------ bounds

\* Longest list a remote list call returns in the model.
MaxList == 2
\* The random source is one of the streams 0..MaxStream.
MaxStream == 2

\* ------------------------------------------------------- Python helpers

None == <<>>
Some(v) == <<v>>
\* Truthiness of an Optional[str]: neither None nor the empty string.
Truthy(o) == o # None /\ o[1] # ""

\* The empty dict {}.
EmptyDict == [k \in {} |-> k]

\* dict.get(key, default) on a dict modelled as a record.
Get(d, k, default) == IF k \in DOMAIN d THEN d[k] ELSE default

\* sep.join(lines), each line a token sequence.
RECURSIVE Join(_, _)
Join(lines, sep) ==
  IF lines = <<>> THEN <<>>
  ELSE IF Len(lines) = 1 THEN lines[1]
  ELSE lines[1] \o <<sep>> \o Join(Tail(lines), sep)

SeqsUpTo(S, n) == UNION {[1..k -> S] : k \in 0..n}

Digit(d) ==
  CASE d = 0 -> "0" [] d = 1 -> "1" [] d = 2 -> "2" [] d = 3 -> "3"
    [] d = 4 -> "4" [] d = 5 -> "5" [] d = 6 -> "6" [] d = 7 -> "7"
    [] d = 8 -> "8" [] d = 9 -> "9"

\* The decimal rendering of an int inside an f-string.
RECURSIVE ToStr(_)
ToStr(n) == IF n < 10 THEN Digit(n) ELSE ToStr(n \div 10) \o Digit(n % 10)

\* The exception classes the handlers can meet, each with its base class.
Base(c) ==
  CASE c = "HttpError" -> "Exception"
    [] c = "OSError" -> "Exception"
    [] c = "FileNotFoundError" -> "OSError"
    [] c = "PermissionError" -> "OSError"
    [] c = "TimeoutError" -> "OSError"
    [] c = "ValueError" -> "Exception"
    [] c = "UnicodeDecodeError" -> "ValueError"
    [] c = "JSONDecodeError" -> "ValueError"
    [] c = "AttributeError" -> "Exception"
    [] OTHER -> ""

\* isinstance(e, c) for an exception of class t.
RECURSIVE IsInstance(_, _)
IsInstance(t, c) ==
  IF t = c THEN TRUE ELSE IF t = "" THEN FALSE ELSE IsInstance(Base(t), c)

\* The outcome of evaluating an expression: a value, or a raised exception.
Val(v) == [exc |-> "", val |-> v]
Throw(t) == [exc |-> t, val |-> <<>>]

\* ----------------------------------------------------------- configuration

SERVICE_ACCOUNT_FILE == "credentials.json"

\* What a handler hands back: a returned string, or an exception that leaves it.
NoResult == [kind |-> "none", value |-> <<>>]
Returned(s) == [kind |-> "return", value |-> s]
Raised(t) == [kind |-> "raise", value |-> <<t>>]

\* ------------------------------------------------------------- exceptions

NoContent == [enc |-> "utf-8", text |-> ""]

\* str(e) of an HttpError.
HttpErrorStr(status) ==
  <<"<HttpError ", ToStr(status), " when requesting the Directory API>">>

HttpError(status, content) ==
  [type |-> "HttpError", status |-> status, content |-> content,
   msg |-> HttpErrorStr(status)]

Exc(type, msg) ==
  [type |-> type, status |-> 0, content |-> NoContent, msg |-> msg]

AdminEmailMissing ==
  <<"GOOGLE_ADMIN_EMAIL non configurato. ",
    "Impostalo con l'email dell'admin che ha la delega domain-wide.">>

\* ------------------------------------------------------- error translator

\* bytes.decode(): the body is bytes in some encoding; strict UTF-8 decoding
\* gives its text or raises UnicodeDecodeError.
decode(content) ==
  IF content.enc = "utf-8" THEN Val(content.text) ELSE Throw("UnicodeDecodeError")

JStr(s) == [kind |-> "str", items |-> s]
JList == [kind |-> "list", items |-> <<>>]
JDict(f) == [kind |-> "dict", items |-> f]

\* json.loads on the texts an error body carries in the model.
json_loads(text) ==
  CASE text = "{\"error\":{\"code\":1,\"message\":\"Not Authorized\"}}" ->
         Val(JDict([error |-> JDict([code |-> JStr("1"),
                                     message |-> JStr("Not Authorized")])]))
    [] text = "{\"error\":{\"code\":1}}" ->
         Val(JDict([error |-> JDict([code |-> JStr("1")])]))
    [] text = "{\"status\":\"fail\"}" ->
         Val(JDict([status |-> JStr("fail")]))
    [] text = "{\"error\":\"invalid_grant\"}" ->
         Val(JDict([error |-> JStr("invalid_grant")]))
    [] text = "[]" -> Val(JList)
    [] OTHER -> Throw("JSONDecodeError")

\* x.get(key, default) on a parsed JSON value: only a dict has .get.
json_get(j, key, default) ==
  IF j.kind # "dict" THEN Throw("AttributeError")
  ELSE Val(Get(j.items, key, default))

\* Lines 62-63, the body of the try: the message of the structured error body.
error_detail_message(e) ==
  LET text == decode(e.content) IN
  IF text.exc # "" THEN text
  ELSE LET detail == json_loads(text.val) IN
       IF detail.exc # "" THEN detail
       ELSE LET err == json_get(detail.val, "error", JDict(EmptyDict)) IN
            IF err.exc # "" THEN err
            ELSE LET m == json_get(err.val, "message", [kind |-> "default", items |-> ""]) IN
                 IF m.exc # "" THEN m
                 ELSE IF m.val.kind = "default" THEN Val(e.msg)
                 ELSE Val(<<m.val.items>>)

\* Lines 61-65: the try with its except (json.JSONDecodeError, AttributeError).
error_message(e) ==
  LET r == error_detail_message(e) IN
  IF r.exc # "" /\ (IsInstance(r.exc, "JSONDecodeError") \/ IsInstance(r.exc, "AttributeError"))
  THEN Val(e.msg)
  ELSE r

DelegationHint == ". Verifica la delega domain-wide del Service Account."
RateLimitText == "Rate limit superato. Riprova tra qualche secondo."

\* Lines 67-74: error_map.get(status, default).
error_map_get(status, message) ==
  CASE status = 400 -> <<"Richiesta non valida: ">> \o message
    [] status = 403 -> <<"Permessi insufficienti: ">> \o message \o <<DelegationHint>>
    [] status = 404 -> <<"Risorsa non trovata: ">> \o message
    [] status = 409 -> <<"Conflitto: ">> \o message \o <<" (l'utente/gruppo potrebbe gia esistere)">>
    [] status = 429 -> <<RateLimitText>>
    [] OTHER -> <<"Errore API Google (HTTP ", ToStr(status), "): ">> \o message

handle_google_error(e) ==
  IF IsInstance(e.type, "HttpError") THEN
    LET message == error_message(e) IN
    IF message.exc # "" THEN Raised(message.exc)
    ELSE Returned(error_map_get(e.status, message.val))
  ELSE IF IsInstance(e.type, "FileNotFoundError") THEN
    Returned(<<"File credenziali non trovato: ", SERVICE_ACCOUNT_FILE, ". Verifica il path.">>)
  ELSE IF IsInstance(e.type, "ValueError") THEN
    Returned(<<"Errore configurazione: ">> \o e.msg)
  ELSE Returned(<<"Errore imprevisto: ", e.type, ": ">> \o e.msg)

\* --------------------------------------------------------- secret generator

AsciiLetters ==
  <<"a","b","c","d","e","f","g","h","i","j","k","l","m",
    "n","o","p","q","r","s","t","u","v","w","x","y","z",
    "A","B","C","D","E","F","G","H","I","J","K","L","M",
    "N","O","P","Q","R","S","T","U","V","W","X","Y","Z">>
AsciiDigits == <<"0","1","2","3","4","5","6","7","8","9">>
PasswordSymbols == <<"!","@","#","$","%","&","*">>

\* The default of generate_temp_password's length parameter.
DefaultLength == 16

\* The index secrets.choice draws at position i under random stream s; the
\* streams reach the first and the last character of the alphabet.
Draw(s, i, n) == (((i - 1) * (s + 4) + s * (n - 1)) % n) + 1

\* generate_temp_password drawing one character too few.
generate_temp_password_short(length, s) ==
  LET chars == AsciiLetters \o AsciiDigits \o PasswordSymbols IN
  [i \in 1..(length - 1) |-> chars[Draw(s, i, Len(chars))]]

generate_temp_password(length, s) ==
  LET chars == AsciiLetters \o AsciiDigits \o PasswordSymbols IN
  [i \in 1..length |-> chars[Draw(s, i, Len(chars))]]

\* ------------------------------------------------------------- formatter

format_user(user) ==
  LET name == Get(user, "name", EmptyDict)
      lines == << <<":e-mail: **", Get(user, "primaryEmail", "N/A"), "**">>,
                  <<"   Nome: ", Get(name, "fullName", "N/A")>>,
                  <<"   ID: ", Get(user, "id", "N/A")>>,
                  <<"   Stato: ", IF ~Get(user, "suspended", FALSE)
                                  THEN ":green_circle: Attivo"
                                  ELSE ":red_circle: Sospeso">>,
                  <<"   Admin: ", IF Get(user, "isAdmin", FALSE) THEN "Si" ELSE "No">>,
                  <<"   Ultimo accesso: ", Get(user, "lastLoginTime", "Mai")>>,
                  <<"   Creazione: ", Get(user, "creationTime", "N/A")>> >>
      aliases == Get(user, "aliases", <<>>)
      withAliases == IF aliases # <<>>
                     THEN Append(lines, <<"   Alias: ">> \o Join([i \in 1..Len(aliases) |-> <<aliases[i]>>], ", "))
                     ELSE lines
      org == Get(user, "orgUnitPath", "/")
      withOrg == IF org # ""
                 THEN Append(withAliases, <<"   Unita org.: ", org>>)
                 ELSE withAliases
  IN Join(withOrg, "\n")

\* ------------------------------------------------------------------ state

\* The module globals read from the environment at import (lines 29-30), and
\* one frame per tool invocation the framework has in flight.  The directory
\* service is outside the program: directory is the record it holds for the
\* user the user keys of the model name, trash the record its last delete call
\* removed (None before any).
VARIABLES ADMIN_EMAIL, CUSTOMER_ID, inv, directory, trash

vars == <<ADMIN_EMAIL, CUSTOMER_ID, inv, directory, trash>>
config == <<ADMIN_EMAIL, CUSTOMER_ID>>
provider == <<directory, trash>>

\* The invocations the framework can have in flight at once.
Procs == {1, 2}

NoExc == Exc("", <<>>)
NoValue == [kind |-> "none"]
Ok(v) == [ok |-> TRUE, value |-> v, exc |-> NoExc]
Fail(e) == [ok |-> FALSE, value |-> NoValue, exc |-> e]

\* A handler's frame: where it stands, its input, what credential acquisition
\* did (calls of get_directory_service, what each read of the credential file
\* gave), the
\* random streams it consumed, the locals it keeps across a remote call, the
\* remote calls it issued, the responses it got and what it handed back.
IdleFrame ==
  [pc |-> "idle", tool |-> "", params |-> EmptyDict, credCalls |-> 0,
   fileReads |-> <<>>, rand |-> <<>>, locals |-> EmptyDict, calls |-> <<>>,
   recv |-> <<>>, result |-> NoResult]

\* ------------------------------------------------------------ environment

\* Records the directory service returns.
UserA == [primaryEmail |-> "a@x.com", name |-> [fullName |-> "A B"], id |-> "1",
          suspended |-> FALSE]
UserB == [primaryEmail |-> "b@x.com", name |-> [fullName |-> "B C"], id |-> "2",
          suspended |-> TRUE, isAdmin |-> TRUE,
          aliases |-> <<"bb@x.com", "b2@x.com">>, orgUnitPath |-> "/IT"]
UserC == [primaryEmail |-> "c@x.com", id |-> "3"]
GroupG == [email |-> "g@x.com", name |-> "G", directMembersCount |-> "3"]
GroupH == [email |-> "h@x.com"]
AliasA == [alias |-> "al@x.com"]
AliasB == [id |-> "9"]
MemberM == [email |-> "m@x.com", role |-> "OWNER", status |-> "ACTIVE"]
MemberN == [email |-> "n@x.com"]
UnitB == [orgUnitPath |-> "/B", name |-> "B", orgUnitId |-> "id:2"]
UnitA == [orgUnitPath |-> "/A", name |-> "A", orgUnitId |-> "id:1"]
UnitX == [name |-> "X"]

\* Error bodies: bytes in an encoding, carrying a text.
BodyMessage == [enc |-> "utf-8", text |-> "{\"error\":{\"code\":1,\"message\":\"Not Authorized\"}}"]
BodyNoMessage == [enc |-> "utf-8", text |-> "{\"error\":{\"code\":1}}"]
BodyNoError == [enc |-> "utf-8", text |-> "{\"status\":\"fail\"}"]
BodyErrorString == [enc |-> "utf-8", text |-> "{\"error\":\"invalid_grant\"}"]
BodyList == [enc |-> "utf-8", text |-> "[]"]
BodyHtml == [enc |-> "utf-8", text |-> "<html>Bad Gateway</html>"]
BodyLatin1 == [enc |-> "latin-1", text |-> "Acces refuse"]

\* The outcomes of reading the credential file and building the client.
CredentialFiles == {"ok", "FileNotFoundError", "ValueError", "PermissionError"}

ListOf(kind, key, pool, n) ==
  {[kind |-> kind]} \cup {(key :> xs) @@ [kind |-> kind] : xs \in SeqsUpTo(pool, n)}

\* What the remote call method can answer in environment E.
Successes(method, E) ==
  CASE method = "users.list" -> ListOf("users", "users", E.users, E.maxlist)
    [] method = "users.get" -> {directory}
    [] method \in {"users.insert", "users.update"} -> E.users
    [] method = "aliases.list" -> ListOf("aliases", "aliases", {AliasA, AliasB}, E.maxlist)
    [] method = "groups.list" -> ListOf("groups", "groups", {GroupG, GroupH}, E.maxlist)
    [] method = "members.list" -> ListOf("members", "members", {MemberM, MemberN}, E.maxlist)
    [] method = "orgunits.list" ->
         ListOf("orgunits", "organizationUnits", {UnitA, UnitB, UnitX}, E.maxlist)
    [] OTHER -> {[kind |-> "empty"]}

Failures(E) ==
  {Fail(HttpError(s, c)) : s \in E.statuses, c \in E.contents}
    \cup {Fail(Exc(t, <<"remote call failed">>)) : t \in E.others}

Responses(method, E) == {Ok(v) : v \in Successes(method, E)} \cup Failures(E)

\* ------------------------------------------------------ credential provider

\* get_directory_service with the credential file loaded before the
\* administrator identity is checked.
get_directory_service_file_first(file) ==
  IF file # "ok" THEN
    [ok |-> FALSE, exc |-> Exc(file, <<"cannot load the service account">>),
     reads |-> <<file>>]
  ELSE IF ADMIN_EMAIL = "" THEN
    [ok |-> FALSE, exc |-> Exc("ValueError", AdminEmailMissing), reads |-> <<file>>]
  ELSE [ok |-> TRUE, exc |-> NoExc, reads |-> <<file>>]

\* Lines 43-54.  file is what reading SERVICE_ACCOUNT_FILE and building the
\* client does; reads lists the reads of the credential file.
get_directory_service(file) ==
  IF ADMIN_EMAIL = "" THEN
    [ok |-> FALSE, exc |-> Exc("ValueError", AdminEmailMissing), reads |-> <<>>]
  ELSE IF file = "ok" THEN [ok |-> TRUE, exc |-> NoExc, reads |-> <<file>>]
  ELSE [ok |-> FALSE, exc |-> Exc(file, <<"cannot load the service account">>),
        reads |-> <<file>>]

\* ----------------------------------------------------------- frame updates

WithService(f, service) ==
  [f EXCEPT !.credCalls = @ + 1, !.fileReads = @ \o service.reads]
Suspend(f, method, kwargs) ==
  [f EXCEPT !.pc = "await", !.calls = Append(@, [method |-> method, kwargs |-> kwargs])]
Receive(f, r) == [f EXCEPT !.recv = Append(@, r)]
Finish(f, res) == [f EXCEPT !.pc = "done", !.result = res]
Keep(f, locals) == [f EXCEPT !.locals = locals]
Consume(f, s) == [f EXCEPT !.rand = Append(@, s)]
\* A handler falling off its end returns None, which is no string.
ReturnedNone == [kind |-> "return_none", value |-> <<>>]
\* del d[k]
Del(d, k) == [x \in DOMAIN d \ {k} |-> d[x]]

At(p, pc, tool) == inv[p].pc = pc /\ inv[p].tool = tool
LastCall(f) == f.calls[Len(f.calls)].method

\* ------------------------------------------------------------- the framework

\* The framework validated an input and dispatches it to its handler.
Invoke(p, E) ==
  /\ inv[p].pc = "idle"
  /\ \E i \in E.inputs :
       inv' = [inv EXCEPT ![p] = [IdleFrame EXCEPT !.pc = "entry", !.tool = i.tool,
                                                   !.params = i.params]]
  /\ UNCHANGED <<config, provider>>

\* Someone else changes the user's record at the directory service (a rename,
\* a suspension): the service then holds another record of the environment.
ExternalChange(E) ==
  /\ \E u \in E.users \ {directory} : directory' = u
  /\ UNCHANGED <<config, inv, trash>>

\* The framework hands the result to the caller; the frame is gone.
Complete(p) ==
  /\ inv[p].pc = "done"
  /\ inv' = [inv EXCEPT ![p] = IdleFrame]
  /\ UNCHANGED <<config, provider>>

\* ---------------------------------------------------------------- handlers

gw_list_users(p) ==
  /\ At(p, "entry", "gw_list_users")
  /\ \E file \in CredentialFiles :
       LET service == get_directory_service(file)
           f == WithService(inv[p], service)
           kwargs == [customer |-> CUSTOMER_ID, maxResults |-> f.params.max_results,
                      orderBy |-> f.params.order_by]
           withQuery == IF Truthy(f.params.query)
                        THEN ("query" :> f.params.query[1]) @@ kwargs
                        ELSE kwargs
       IN inv' = [inv EXCEPT ![p] =
                    IF ~service.ok THEN Finish(f, handle_google_error(service.exc))
                    ELSE Suspend(f, "users.list", withQuery)]
  /\ UNCHANGED <<config, provider>>

\* The filter with its test inverted: it keeps the suspended users.
visible_users_inverted(users, show_suspended) ==
  IF ~show_suspended
  THEN SelectSeq(users, LAMBDA u : Get(u, "suspended", FALSE))
  ELSE users

\* Lines 178-179: the client-side filter.
visible_users(users, show_suspended) ==
  IF ~show_suspended
  THEN SelectSeq(users, LAMBDA u : ~Get(u, "suspended", FALSE))
  ELSE users

gw_list_users_resume(p, E) ==
  /\ At(p, "await", "gw_list_users")
  /\ \E r \in Responses("users.list", E) :
       LET f == Receive(inv[p], r)
           users == visible_users(Get(r.value, "users", <<>>), f.params.show_suspended)
           output == <<<<"## Utenti trovati: ", ToStr(Len(users)), "\n">>>>
                       \o [i \in 1..(2 * Len(users)) |->
                             IF i % 2 = 1 THEN format_user(users[(i + 1) \div 2])
                             ELSE <<"---">>]
       IN inv' = [inv EXCEPT ![p] =
                    IF ~r.ok THEN Finish(f, handle_google_error(r.exc))
                    ELSE IF users = <<>>
                    THEN Finish(f, Returned(<<"Nessun utente trovato con i criteri specificati.">>))
                    ELSE Finish(f, Returned(Join(output, "\n")))]
  /\ UNCHANGED <<config, provider>>

gw_get_user(p) ==
  /\ At(p, "entry", "gw_get_user")
  /\ \E file \in CredentialFiles :
       LET service == get_directory_service(file)
           f == WithService(inv[p], service)
       IN inv' = [inv EXCEPT ![p] =
                    IF ~service.ok THEN Finish(f, handle_google_error(service.exc))
                    ELSE Suspend(f, "users.get", [userKey |-> f.params.user_key])]
  /\ UNCHANGED <<config, provider>>

gw_get_user_resume(p, E) ==
  /\ At(p, "await", "gw_get_user")
  /\ \E r \in Responses("users.get", E) :
       LET f == Receive(inv[p], r)
       IN inv' = [inv EXCEPT ![p] =
                    IF ~r.ok THEN Finish(f, handle_google_error(r.exc))
                    ELSE Finish(f, Returned(format_user(r.value)))]
  /\ UNCHANGED <<config, provider>>

\* Line 297 and line 474: given or generate_temp_password().
password_or_generated(given, s) ==
  IF given # None /\ given[1] # <<>> THEN given[1]
  ELSE generate_temp_password(DefaultLength, s)

gw_create_user(p) ==
  /\ At(p, "entry", "gw_create_user")
  /\ \E file \in CredentialFiles, s \in 0..MaxStream :
       LET service == get_directory_service(file)
           f == WithService(inv[p], service)
           generate == ~(f.params.password # None /\ f.params.password[1] # <<>>)
           password == password_or_generated(f.params.password, s)
           user_body ==
             [primaryEmail |-> f.params.primary_email,
              name |-> [givenName |-> f.params.first_name,
                        familyName |-> f.params.last_name],
              password |-> password,
              changePasswordAtNextLogin |-> f.params.change_password_at_next_login,
              orgUnitPath |-> f.params.org_unit_path]
           withEmail == IF Truthy(f.params.recovery_email)
                        THEN ("recoveryEmail" :> f.params.recovery_email[1]) @@ user_body
                        ELSE user_body
           withPhone == IF Truthy(f.params.recovery_phone)
                        THEN ("recoveryPhone" :> f.params.recovery_phone[1]) @@ withEmail
                        ELSE withEmail
           g == IF generate THEN Consume(f, s) ELSE f
       IN inv' = [inv EXCEPT ![p] =
                    IF ~service.ok THEN Finish(f, handle_google_error(service.exc))
                    ELSE Suspend(Keep(g, [password |-> password]), "users.insert",
                                 [body |-> withPhone])]
  /\ UNCHANGED <<config, provider>>

gw_create_user_resume(p, E) ==
  /\ At(p, "await", "gw_create_user")
  /\ \E r \in Responses("users.insert", E) :
       LET f == Receive(inv[p], r)
       IN inv' = [inv EXCEPT ![p] =
                    IF ~r.ok THEN Finish(f, handle_google_error(r.exc))
                    ELSE Finish(f, Returned(
                      <<":white_check_mark: Utente creato con successo!\n\n">>
                        \o format_user(r.value)
                        \o <<"\n\n:key: **Password temporanea**: (backquote)">>
                        \o f.locals.password
                        \o <<"(backquote)\n">>
                        \o (IF f.params.change_password_at_next_login
                            THEN <<":warning: L'utente dovra cambiarla al primo accesso.">>
                            ELSE <<>>)
                        \o <<"\n\nComunica le credenziali al cliente in modo sicuro.">>))]
  /\ UNCHANGED <<config, provider>>

CancelText ==
  <<":no_entry: Eliminazione annullata. Per procedere, imposta confirm=True.\n",
    "Ricorda: l'utente sara nel cestino per 20 giorni prima dell'eliminazione definitiva.">>

\* gw_delete_user with the confirm check moved inside the try, after the
\* client handle is acquired.
gw_delete_user_confirm_in_try(p) ==
  /\ At(p, "entry", "gw_delete_user")
  /\ \E file \in CredentialFiles :
       LET service == get_directory_service(file)
           f == WithService(inv[p], service)
       IN inv' = [inv EXCEPT ![p] =
                    IF ~service.ok THEN Finish(f, handle_google_error(service.exc))
                    ELSE IF ~f.params.confirm THEN Finish(f, Returned(CancelText))
                    ELSE Suspend(f, "users.get", [userKey |-> f.params.user_key])]
  /\ UNCHANGED <<config, provider>>

\* Lines 368-375: the confirm check, then the credentials and the get call.
gw_delete_user(p) ==
  /\ At(p, "entry", "gw_delete_user")
  /\ \E file \in CredentialFiles :
       LET service == get_directory_service(file)
           f == WithService(inv[p], service)
       IN inv' = [inv EXCEPT ![p] =
                    IF ~inv[p].params.confirm THEN Finish(inv[p], Returned(CancelText))
                    ELSE IF ~service.ok THEN Finish(f, handle_google_error(service.exc))
                    ELSE Suspend(f, "users.get", [userKey |-> f.params.user_key])]
  /\ UNCHANGED <<config, provider>>

\* Lines 375-379: the get call answers; on success the delete call is issued.
gw_delete_user_got_key_only(p, E) ==
  /\ At(p, "await", "gw_delete_user")
  /\ LastCall(inv[p]) = "users.get"
  /\ \E r \in Responses("users.get", E) :
       LET f == Receive(inv[p], r)
       IN inv' = [inv EXCEPT ![p] =
                    IF ~r.ok THEN Finish(f, handle_google_error(r.exc))
                    ELSE Suspend(Keep(f, [user_email |-> f.params.user_key, user_name |-> "N/A"]),
                                 "users.delete", [userKey |-> f.params.user_key])]
  /\ UNCHANGED <<config, provider>>

gw_delete_user_got(p, E) ==
  /\ At(p, "await", "gw_delete_user")
  /\ LastCall(inv[p]) = "users.get"
  /\ \E r \in Responses("users.get", E) :
       LET f == Receive(inv[p], r)
           user_email == Get(r.value, "primaryEmail", f.params.user_key)
           user_name == Get(Get(r.value, "name", EmptyDict), "fullName", "N/A")
       IN inv' = [inv EXCEPT ![p] =
                    IF ~r.ok THEN Finish(f, handle_google_error(r.exc))
                    ELSE Suspend(Keep(f, [user_email |-> user_email, user_name |-> user_name]),
                                 "users.delete", [userKey |-> f.params.user_key])]
  /\ UNCHANGED <<config, provider>>

\* Lines 379-387: the delete call answers.
gw_delete_user_deleted(p, E) ==
  /\ At(p, "await", "gw_delete_user")
  /\ LastCall(inv[p]) = "users.delete"
  /\ \E r \in Responses("users.delete", E) :
       LET f == Receive(inv[p], r)
       IN /\ inv' = [inv EXCEPT ![p] =
                       IF ~r.ok THEN Finish(f, handle_google_error(r.exc))
                       ELSE Finish(f, Returned(
                         <<":wastebasket: Utente eliminato: **", f.locals.user_name, "** (",
                           f.locals.user_email, ")\n\n",
                           "L'utente restera nel cestino per 20 giorni e potra essere ripristinato.\n",
                           "Dopo 20 giorni l'eliminazione sara definitiva.">>))]
          /\ trash' = IF r.ok THEN Some(directory) ELSE trash
  /\ UNCHANGED <<config, directory>>

gw_suspend_user(p) ==
  /\ At(p, "entry", "gw_suspend_user")
  /\ \E file \in CredentialFiles :
       LET service == get_directory_service(file)
           f == WithService(inv[p], service)
       IN inv' = [inv EXCEPT ![p] =
                    IF ~service.ok THEN Finish(f, handle_google_error(service.exc))
                    ELSE Suspend(f, "users.update",
                                 [userKey |-> f.params.user_key,
                                  body |-> [suspended |-> f.params.suspend]])]
  /\ UNCHANGED <<config, provider>>

gw_suspend_user_resume(p, E) ==
  /\ At(p, "await", "gw_suspend_user")
  /\ \E r \in Responses("users.update", E) :
       LET f == Receive(inv[p], r)
           action == IF f.params.suspend THEN "sospeso :red_circle:"
                     ELSE "riattivato :green_circle:"
       IN inv' = [inv EXCEPT ![p] =
                    IF ~r.ok THEN Finish(f, handle_google_error(r.exc))
                    ELSE Finish(f, Returned(
                      <<":white_check_mark: Utente ", action, ": **",
                        Get(r.value, "primaryEmail", "None"), "**\n\n">>
                        \o format_user(r.value)))]
  /\ UNCHANGED <<config, provider>>

gw_reset_password(p) ==
  /\ At(p, "entry", "gw_reset_password")
  /\ \E file \in CredentialFiles, s \in 0..MaxStream :
       LET service == get_directory_service(file)
           f == WithService(inv[p], service)
           generate == ~(f.params.new_password # None /\ f.params.new_password[1] # <<>>)
           password == password_or_generated(f.params.new_password, s)
           g == IF generate THEN Consume(f, s) ELSE f
       IN inv' = [inv EXCEPT ![p] =
                    IF ~service.ok THEN Finish(f, handle_google_error(service.exc))
                    ELSE Suspend(Keep(g, [password |-> password]), "users.update",
                                 [userKey |-> f.params.user_key,
                                  body |-> [password |-> password,
                                            changePasswordAtNextLogin |-> f.params.force_change]])]
  /\ UNCHANGED <<config, provider>>

gw_reset_password_resume(p, E) ==
  /\ At(p, "await", "gw_reset_password")
  /\ \E r \in Responses("users.update", E) :
       LET f == Receive(inv[p], r)
       IN inv' = [inv EXCEPT ![p] =
                    IF ~r.ok THEN Finish(f, handle_google_error(r.exc))
                    ELSE Finish(f, Returned(
                      <<":key: Password resettata per: **",
                        Get(r.value, "primaryEmail", "None"), "**\n\n",
                        "Nuova password: (backquote)">>
                        \o f.locals.password
                        \o <<"(backquote)\n">>
                        \o (IF f.params.force_change
                            THEN <<":warning: L'utente dovra cambiarla al prossimo accesso.">>
                            ELSE <<>>)
                        \o <<"\n\nComunica la nuova password in modo sicuro.">>))]
  /\ UNCHANGED <<config, provider>>

AliasWarning == <<":warning: Specifica alias_email per aggiungere o rimuovere un alias.">>

gw_manage_alias(p) ==
  /\ At(p, "entry", "gw_manage_alias")
  /\ \E file \in CredentialFiles :
       LET service == get_directory_service(file)
           f == WithService(inv[p], service)
       IN inv' = [inv EXCEPT ![p] =
                    IF ~service.ok THEN Finish(f, handle_google_error(service.exc))
                    ELSE IF f.params.action = "list"
                    THEN Suspend(f, "aliases.list", [userKey |-> f.params.user_key])
                    ELSE IF ~Truthy(f.params.alias_email) THEN Finish(f, Returned(AliasWarning))
                    ELSE IF f.params.action = "add"
                    THEN Suspend(f, "aliases.insert",
                                 [userKey |-> f.params.user_key,
                                  body |-> [alias |-> f.params.alias_email[1]]])
                    ELSE IF f.params.action = "remove"
                    THEN Suspend(f, "aliases.delete",
                                 [userKey |-> f.params.user_key,
                                  alias |-> f.params.alias_email[1]])
                    ELSE Finish(f, ReturnedNone)]
  /\ UNCHANGED <<config, provider>>

gw_manage_alias_resume(p, E) ==
  /\ At(p, "await", "gw_manage_alias")
  /\ \E r \in Responses(LastCall(inv[p]), E) :
       LET f == Receive(inv[p], r)
           aliases == Get(r.value, "aliases", <<>>)
           lines == <<<<"## Alias per ", f.params.user_key, "\n">>>>
                      \o [i \in 1..Len(aliases) |-> <<"- ", Get(aliases[i], "alias", "N/A")>>]
       IN inv' = [inv EXCEPT ![p] =
                    IF ~r.ok THEN Finish(f, handle_google_error(r.exc))
                    ELSE IF f.params.action = "list"
                    THEN (IF aliases = <<>>
                          THEN Finish(f, Returned(<<"Nessun alias configurato per ",
                                                    f.params.user_key, ".">>))
                          ELSE Finish(f, Returned(Join(lines, "\n"))))
                    ELSE IF f.params.action = "add"
                    THEN Finish(f, Returned(<<":white_check_mark: Alias **", f.params.alias_email[1],
                                              "** aggiunto a ", f.params.user_key>>))
                    ELSE Finish(f, Returned(<<":wastebasket: Alias **", f.params.alias_email[1],
                                              "** rimosso da ", f.params.user_key>>))]
  /\ UNCHANGED <<config, provider>>

\* Lines 602-605: the scope of the list call.
list_groups_kwargs_both(params) ==
  LET kwargs == [customer |-> CUSTOMER_ID, maxResults |-> params.max_results] IN
  IF Truthy(params.user_key)
  THEN ("userKey" :> params.user_key[1]) @@ kwargs
  ELSE kwargs

list_groups_kwargs(params) ==
  LET kwargs == [customer |-> CUSTOMER_ID, maxResults |-> params.max_results] IN
  IF Truthy(params.user_key)
  THEN Del(("userKey" :> params.user_key[1]) @@ kwargs, "customer")
  ELSE kwargs

\* gw_list_groups keeping the scope of its call in the module global: a user
\* key replaces the customer identifier for every invocation.
gw_list_groups_global(p) ==
  /\ At(p, "entry", "gw_list_groups")
  /\ \E file \in CredentialFiles :
       LET service == get_directory_service(file)
           f == WithService(inv[p], service)
       IN /\ inv' = [inv EXCEPT ![p] =
                       IF ~service.ok THEN Finish(f, handle_google_error(service.exc))
                       ELSE Suspend(f, "groups.list", list_groups_kwargs(f.params))]
          /\ CUSTOMER_ID' = IF service.ok /\ Truthy(f.params.user_key)
                            THEN f.params.user_key[1]
                            ELSE CUSTOMER_ID
  /\ UNCHANGED <<ADMIN_EMAIL, provider>>

gw_list_groups(p) ==
  /\ At(p, "entry", "gw_list_groups")
  /\ \E file \in CredentialFiles :
       LET service == get_directory_service(file)
           f == WithService(inv[p], service)
       IN inv' = [inv EXCEPT ![p] =
                    IF ~service.ok THEN Finish(f, handle_google_error(service.exc))
                    ELSE Suspend(f, "groups.list", list_groups_kwargs(f.params))]
  /\ UNCHANGED <<config, provider>>

gw_list_groups_resume(p, E) ==
  /\ At(p, "await", "gw_list_groups")
  /\ \E r \in Responses("groups.list", E) :
       LET f == Receive(inv[p], r)
           groups == Get(r.value, "groups", <<>>)
           lines == <<<<"## Gruppi trovati: ", ToStr(Len(groups)), "\n">>>>
                      \o [i \in 1..Len(groups) |->
                            <<"- :busts: **", Get(groups[i], "email", "None"), "** -- ",
                              Get(groups[i], "name", "N/A"), " (",
                              Get(groups[i], "directMembersCount", "?"), " membri)">>]
       IN inv' = [inv EXCEPT ![p] =
                    IF ~r.ok THEN Finish(f, handle_google_error(r.exc))
                    ELSE IF groups = <<>> THEN Finish(f, Returned(<<"Nessun gruppo trovato.">>))
                    ELSE Finish(f, Returned(Join(lines, "\n")))]
  /\ UNCHANGED <<config, provider>>

MemberWarning == <<":warning: Specifica member_email per aggiungere o rimuovere un membro.">>

\* params.role.value: None has no attribute value.
role_value(role) == IF role = None THEN Throw("AttributeError") ELSE Val(role[1])

gw_manage_group_member(p) ==
  /\ At(p, "entry", "gw_manage_group_member")
  /\ \E file \in CredentialFiles :
       LET service == get_directory_service(file)
           f == WithService(inv[p], service)
           role == role_value(f.params.role)
       IN inv' = [inv EXCEPT ![p] =
                    IF ~service.ok THEN Finish(f, handle_google_error(service.exc))
                    ELSE IF f.params.action = "list"
                    THEN Suspend(f, "members.list", [groupKey |-> f.params.group_key])
                    ELSE IF ~Truthy(f.params.member_email) THEN Finish(f, Returned(MemberWarning))
                    ELSE IF f.params.action = "add"
                    THEN (IF role.exc # ""
                          THEN Finish(f, handle_google_error(
                                 Exc(role.exc, <<"'NoneType' object has no attribute 'value'">>)))
                          ELSE Suspend(f, "members.insert",
                                       [groupKey |-> f.params.group_key,
                                        body |-> [email |-> f.params.member_email[1],
                                                  role |-> role.val]]))
                    ELSE IF f.params.action = "remove"
                    THEN Suspend(f, "members.delete",
                                 [groupKey |-> f.params.group_key,
                                  memberKey |-> f.params.member_email[1]])
                    ELSE Finish(f, ReturnedNone)]
  /\ UNCHANGED <<config, provider>>

gw_manage_group_member_resume(p, E) ==
  /\ At(p, "await", "gw_manage_group_member")
  /\ \E r \in Responses(LastCall(inv[p]), E) :
       LET f == Receive(inv[p], r)
           members == Get(r.value, "members", <<>>)
           lines == <<<<"## Membri di ", f.params.group_key, "\n">>>>
                      \o [i \in 1..Len(members) |->
                            <<"- ", Get(members[i], "email", "N/A"), " (",
                              Get(members[i], "role", "MEMBER"), ") ",
                              Get(members[i], "status", "")>>]
       IN inv' = [inv EXCEPT ![p] =
                    IF ~r.ok THEN Finish(f, handle_google_error(r.exc))
                    ELSE IF f.params.action = "list"
                    THEN (IF members = <<>>
                          THEN Finish(f, Returned(<<"Il gruppo ", f.params.group_key,
                                                    " non ha membri.">>))
                          ELSE Finish(f, Returned(Join(lines, "\n"))))
                    ELSE IF f.params.action = "add"
                    THEN Finish(f, Returned(<<":white_check_mark: **", f.params.member_email[1],
                                              "** aggiunto al gruppo **", f.params.group_key,
                                              "** come ", f.params.role[1]>>))
                    ELSE Finish(f, Returned(<<":wastebasket: **", f.params.member_email[1],
                                              "** rimosso dal gruppo **", f.params.group_key,
                                              "**">>))]
  /\ UNCHANGED <<config, provider>>

\* Python's order of the organizational-unit paths of the model.
PathRank(path) == CASE path = "" -> 0 [] path = "/A" -> 1 [] path = "/B" -> 2

\* Line 748: sorted(units, key=lambda x: x.get("orgUnitPath", "")), a stable sort.
RECURSIVE InsertUnit(_, _)
InsertUnit(u, sorted) ==
  IF sorted = <<>> THEN <<u>>
  ELSE IF PathRank(Get(u, "orgUnitPath", "")) < PathRank(Get(sorted[1], "orgUnitPath", ""))
  THEN <<u>> \o sorted
  ELSE <<sorted[1]>> \o InsertUnit(u, Tail(sorted))

RECURSIVE SortedUnits(_)
SortedUnits(units) ==
  IF units = <<>> THEN <<>>
  ELSE InsertUnit(units[Len(units)], SortedUnits(SubSeq(units, 1, Len(units) - 1)))

gw_list_org_units(p) ==
  /\ At(p, "entry", "gw_list_org_units")
  /\ \E file \in CredentialFiles :
       LET service == get_directory_service(file)
           f == WithService(inv[p], service)
       IN inv' = [inv EXCEPT ![p] =
                    IF ~service.ok THEN Finish(f, handle_google_error(service.exc))
                    ELSE Suspend(f, "orgunits.list",
                                 [customerId |-> CUSTOMER_ID, type |-> "all"])]
  /\ UNCHANGED <<config, provider>>

gw_list_org_units_resume(p, E) ==
  /\ At(p, "await", "gw_list_org_units")
  /\ \E r \in Responses("orgunits.list", E) :
       LET f == Receive(inv[p], r)
           units == Get(r.value, "organizationUnits", <<>>)
           sorted == SortedUnits(units)
           lines == <<<<"## Unita Organizzative\n">>>>
                      \o [i \in 1..Len(sorted) |->
                            <<"- :file_folder: **", Get(sorted[i], "orgUnitPath", "None"),
                              "** -- ", Get(sorted[i], "name", "N/A"), " (ID: ",
                              Get(sorted[i], "orgUnitId", "N/A"), ")">>]
       IN inv' = [inv EXCEPT ![p] =
                    IF ~r.ok THEN Finish(f, handle_google_error(r.exc))
                    ELSE IF units = <<>>
                    THEN Finish(f, Returned(
                           <<"Nessuna unita organizzativa personalizzata (solo root /).">>))
                    ELSE Finish(f, Returned(Join(lines, "\n")))]
  /\ UNCHANGED <<config, provider>>

gw_move_user_org(p) ==
  /\ At(p, "entry", "gw_move_user_org")
  /\ \E file \in CredentialFiles :
       LET service == get_directory_service(file)
           f == WithService(inv[p], service)
       IN inv' = [inv EXCEPT ![p] =
                    IF ~service.ok THEN Finish(f, handle_google_error(service.exc))
                    ELSE Suspend(f, "users.update",
                                 [userKey |-> f.params.user_key,
                                  body |-> [orgUnitPath |-> f.params.org_unit_path]])]
  /\ UNCHANGED <<config, provider>>

gw_move_user_org_resume(p, E) ==
  /\ At(p, "await", "gw_move_user_org")
  /\ \E r \in Responses("users.update", E) :
       LET f == Receive(inv[p], r)
       IN inv' = [inv EXCEPT ![p] =
                    IF ~r.ok THEN Finish(f, handle_google_error(r.exc))
                    ELSE Finish(f, Returned(
                      <<":white_check_mark: **", Get(r.value, "primaryEmail", "None"),
                        "** spostato in **", f.params.org_unit_path, "**">>))]
  /\ UNCHANGED <<config, provider>>

\* --------------------------------------------------------------- behaviours

UserKeys == {"a@x.com"}
Passwords == {None, Some(<<>>), Some(<<"P", "w", "1", "!">>)}

\* Valid inputs of the eleven tools.
ToolInputs(queries, passwords, recoveries, keys, roles) ==
  {[tool |-> "gw_list_users",
    params |-> [query |-> q, max_results |-> 100, order_by |-> "email",
                show_suspended |-> s]] : q \in queries, s \in BOOLEAN}
  \cup {[tool |-> "gw_get_user", params |-> [user_key |-> k]] : k \in UserKeys}
  \cup {[tool |-> "gw_create_user",
         params |-> [primary_email |-> "n@x.com", first_name |-> "N", last_name |-> "M",
                     password |-> pw, org_unit_path |-> "/",
                     change_password_at_next_login |-> c,
                     recovery_email |-> rec[1], recovery_phone |-> rec[2]]] :
          pw \in passwords, c \in BOOLEAN, rec \in recoveries}
  \cup {[tool |-> "gw_delete_user", params |-> [user_key |-> k, confirm |-> c]] :
          k \in UserKeys, c \in BOOLEAN}
  \cup {[tool |-> "gw_suspend_user", params |-> [user_key |-> k, suspend |-> b]] :
          k \in UserKeys, b \in BOOLEAN}
  \cup {[tool |-> "gw_reset_password",
         params |-> [user_key |-> k, new_password |-> pw, force_change |-> c]] :
          k \in UserKeys, pw \in passwords, c \in BOOLEAN}
  \cup {[tool |-> "gw_manage_alias",
         params |-> [user_key |-> k, action |-> a, alias_email |-> e]] :
          k \in UserKeys, a \in {"add", "remove", "list"}, e \in {None, Some("al@x.com")}}
  \cup {[tool |-> "gw_list_groups", params |-> [user_key |-> k, max_results |-> 100]] :
          k \in keys}
  \cup {[tool |-> "gw_manage_group_member",
         params |-> [group_key |-> "g@x.com", action |-> a, member_email |-> e,
                     role |-> r]] :
          a \in {"add", "remove", "list"}, e \in {None, Some(""), Some("m@x.com")},
          r \in roles}
  \cup {[tool |-> "gw_list_org_units", params |-> EmptyDict]}
  \cup {[tool |-> "gw_move_user_org",
         params |-> [user_key |-> k, org_unit_path |-> "/IT"]] : k \in UserKeys}

\* Everything the model lets the environment do.
FullEnv ==
  [inputs |-> ToolInputs({None, Some("name:A")}, Passwords,
                         {<<None, None>>, <<Some("r@x.com"), Some("+39 1")>>},
                         {None, Some(""), Some("a@x.com")},
                         {None, Some("MEMBER"), Some("OWNER")}),
   users |-> {UserA, UserB, UserC},
   maxlist |-> MaxList,
   statuses |-> {400, 403, 404, 409, 429, 500},
   contents |-> {BodyMessage, BodyNoMessage, BodyNoError, BodyErrorString,
                 BodyList, BodyHtml, BodyLatin1},
   others |-> {"TimeoutError", "JSONDecodeError"}]

Init ==
  /\ ADMIN_EMAIL \in {"", "admin@x.com"}
  /\ CUSTOMER_ID \in {"my_customer", "C01abc"}
  /\ inv = [p \in Procs |-> IdleFrame]
  /\ directory = UserA
  /\ trash = None

Step(p, E) ==
  \/ Invoke(p, E)
  \/ Complete(p)
  \/ gw_list_users(p)
  \/ gw_list_users_resume(p, E)
  \/ gw_get_user(p)
  \/ gw_get_user_resume(p, E)
  \/ gw_create_user(p)
  \/ gw_create_user_resume(p, E)
  \/ gw_delete_user(p)
  \/ gw_delete_user_got(p, E)
  \/ gw_delete_user_deleted(p, E)
  \/ gw_suspend_user(p)
  \/ gw_suspend_user_resume(p, E)
  \/ gw_reset_password(p)
  \/ gw_reset_password_resume(p, E)
  \/ gw_manage_alias(p)
  \/ gw_manage_alias_resume(p, E)
  \/ gw_list_groups(p)
  \/ gw_list_groups_resume(p, E)
  \/ gw_manage_group_member(p)
  \/ gw_manage_group_member_resume(p, E)
  \/ gw_list_org_units(p)
  \/ gw_list_org_units_resume(p, E)
  \/ gw_move_user_org(p)
  \/ gw_move_user_org_resume(p, E)

\* One invocation at a time.
Next == Step(1, FullEnv) \/ ExternalChange(FullEnv)

Spec == Init /\ [][Next]_vars

\* A smaller environment for invocations that run concurrently.
ConcEnv ==
  [inputs |-> ToolInputs({None}, {None}, {<<None, None>>}, {None, Some("a@x.com")},
                         {Some("MEMBER")}),
   users |-> {UserA, UserB},
   maxlist |-> 1,
   statuses |-> {429},
   contents |-> {BodyMessage, BodyLatin1},
   others |-> {"TimeoutError"}]

\* The invocations interleave at their remote calls.
ConcNext == (\E p \in Procs : Step(p, ConcEnv)) \/ ExternalChange(ConcEnv)

ConcSpec == Init /\ [][ConcNext]_vars

\* ------------------------------------------------------------------- claims

Has(out, tok) == \E i \in 1..Len(out) : out[i] = tok
Methods(f) == [i \in 1..Len(f.calls) |-> f.calls[i].method]
Done(p, tool) == inv[p].pc = "done" /\ inv[p].tool = tool
\* The last response a frame got is a status-coded transport failure.
HttpFailed(f) ==
  /\ f.recv # <<>>
  /\ ~f.recv[Len(f.recv)].ok
  /\ f.recv[Len(f.recv)].exc.type = "HttpError"
AnyFailed(f) == \E i \in 1..Len(f.recv) : ~f.recv[i].ok
DeletionConfirmed(f) ==
  f.result.value # <<>> /\ f.result.value[1] = ":wastebasket: Utente eliminato: **"

\* C1: every tool invocation ends by returning a string: no exception leaves a
\* handler, the error translator included, and no handler returns a non-string.
C1_AlwaysReturnsString ==
  \A p \in Procs : inv[p].pc = "done" => inv[p].result.kind = "return"

\* C2: delete-user with confirm=false acquires no client handle, issues no get
\* and no delete call, and returns the cancellation string verbatim, whatever
\* the configuration.
C2_UnconfirmedDeleteCancels ==
  \A p \in Procs :
    (inv[p].tool = "gw_delete_user" /\ ~inv[p].params.confirm) =>
      /\ inv[p].pc \in {"entry", "done"}
      /\ inv[p].credCalls = 0
      /\ inv[p].fileReads = <<>>
      /\ inv[p].calls = <<>>
      /\ inv[p].pc = "done" => inv[p].result = Returned(CancelText)

C2_Witness ==
  \E p \in Procs :
    /\ Done(p, "gw_delete_user")
    /\ ~inv[p].params.confirm
    /\ ADMIN_EMAIL = ""

\* C3: delete-user with confirm=true issues exactly one get call then exactly
\* one delete call when the get succeeds; when the get fails the delete call is
\* never issued and the result is the translated get failure, not a deletion
\* confirmation.
C3_ConfirmedDeleteOrder ==
  \A p \in Procs :
    (inv[p].tool = "gw_delete_user" /\ inv[p].params.confirm) =>
      /\ Methods(inv[p]) \in {<<>>, <<"users.get">>, <<"users.get", "users.delete">>}
      /\ (inv[p].recv # <<>> /\ inv[p].recv[1].ok) =>
           Methods(inv[p]) = <<"users.get", "users.delete">>
      /\ (inv[p].recv # <<>> /\ ~inv[p].recv[1].ok) =>
           /\ Methods(inv[p]) = <<"users.get">>
           /\ inv[p].pc = "done"
           /\ inv[p].result.kind = "return"
           /\ ~DeletionConfirmed(inv[p])

\* The tokens after each ":e-mail: **" of a rendering: the users it shows.
RECURSIVE EmailsIn(_)
EmailsIn(out) ==
  IF Len(out) < 2 THEN <<>>
  ELSE IF out[1] = ":e-mail: **" THEN <<out[2]>> \o EmailsIn(Tail(Tail(out)))
  ELSE EmailsIn(Tail(out))

RECURSIVE ActiveEmails(_)
ActiveEmails(users) ==
  IF users = <<>> THEN <<>>
  ELSE IF "suspended" \in DOMAIN users[1] /\ users[1].suspended
  THEN ActiveEmails(Tail(users))
  ELSE <<users[1].primaryEmail>> \o ActiveEmails(Tail(users))

\* C4: list-users with show_suspended=false renders no record whose suspended
\* flag is true, renders every other record the list call returned, and
\* returns the "no results" message when the filter leaves none.
C4_SuspendedFiltered ==
  \A p \in Procs :
    (/\ Done(p, "gw_list_users")
     /\ ~inv[p].params.show_suspended
     /\ inv[p].recv # <<>>
     /\ inv[p].recv[1].ok) =>
      LET users == Get(inv[p].recv[1].value, "users", <<>>)
          out == inv[p].result.value
      IN /\ inv[p].result.kind = "return"
         /\ ~Has(out, ":red_circle: Sospeso")
         /\ EmailsIn(out) = ActiveEmails(users)
         /\ ActiveEmails(users) = <<>> =>
              out = <<"Nessun utente trovato con i criteri specificati.">>

C4_Witness ==
  \E p \in Procs :
    /\ Done(p, "gw_list_users")
    /\ ~inv[p].params.show_suspended
    /\ inv[p].recv # <<>>
    /\ inv[p].recv[1].ok
    /\ Get(inv[p].recv[1].value, "users", <<>>) = <<UserB, UserA>>

\* C5: manage-alias with action add or remove and no alias_email returns the
\* alias warning and issues no remote call, and manage-group-member with no
\* member_email returns the member warning and issues no remote call, in every
\* configuration state.
C5_MissingEmailWarns ==
  \A p \in Procs :
    /\ (Done(p, "gw_manage_alias") /\ inv[p].params.action \in {"add", "remove"}
          /\ inv[p].params.alias_email = None) =>
         (inv[p].result = Returned(AliasWarning) /\ inv[p].calls = <<>>)
    /\ (Done(p, "gw_manage_group_member") /\ inv[p].params.action \in {"add", "remove"}
          /\ inv[p].params.member_email = None) =>
         (inv[p].result = Returned(MemberWarning) /\ inv[p].calls = <<>>)

\* C6: a transport failure with status 403 is rendered with the delegation
\* hint, one with status 429 with the retry-later text, and one with a status
\* outside 400, 403, 404, 409, 429 with "HTTP {code}", whatever its body.
C6_StatusRendering ==
  \A p \in Procs :
    (inv[p].pc = "done" /\ HttpFailed(inv[p])) =>
      LET status == inv[p].recv[Len(inv[p].recv)].exc.status
          out == inv[p].result.value
      IN /\ inv[p].result.kind = "return"
         /\ status = 403 => Has(out, DelegationHint)
         /\ status = 429 => Has(out, RateLimitText)
         /\ status \notin {400, 403, 404, 409, 429} =>
              \E i \in 1..(Len(out) - 1) :
                out[i] = "Errore API Google (HTTP " /\ out[i + 1] = ToStr(status)

\* C7: with an empty administrator identity every credential acquisition fails
\* before the credential file is read; the invocation returns the
\* configuration error and issues no remote call.
C7_EmptyAdminFailsFirst ==
  ADMIN_EMAIL = "" =>
    \A p \in Procs :
      inv[p].credCalls > 0 =>
        /\ inv[p].fileReads = <<>>
        /\ inv[p].calls = <<>>
        /\ inv[p].pc = "done"
        /\ inv[p].result = Returned(<<"Errore configurazione: ">> \o AdminEmailMissing)

C7_Witness ==
  /\ ADMIN_EMAIL = ""
  /\ \E p \in Procs : Done(p, "gw_list_org_units") /\ inv[p].credCalls = 1

\* C8: no remote call is retried: an invocation issues at most one remote call
\* (get then delete for delete-user), and after a remote call fails it issues
\* no further call and returns the translated error.
C8_NoRetry ==
  \A p \in Procs :
    /\ Len(inv[p].calls) <= 1 \/ Methods(inv[p]) = <<"users.get", "users.delete">>
    /\ AnyFailed(inv[p]) =>
         /\ inv[p].pc = "done"
         /\ Len(inv[p].calls) = Len(inv[p].recv)
         /\ ~inv[p].recv[Len(inv[p].recv)].ok
         /\ inv[p].result.kind = "return"

AllowedAlphabet ==
  {"a","b","c","d","e","f","g","h","i","j","k","l","m","n","o","p","q","r","s",
   "t","u","v","w","x","y","z","A","B","C","D","E","F","G","H","I","J","K","L",
   "M","N","O","P","Q","R","S","T","U","V","W","X","Y","Z","0","1","2","3","4",
   "5","6","7","8","9","!","@","#","$","%","&","*"}

\* The password a create-user confirmation shows between its backquotes.
PasswordShown(out) ==
  LET open == CHOOSE i \in 1..Len(out) :
                out[i] = "\n\n:key: **Password temporanea**: (backquote)"
      close == CHOOSE j \in (open + 1)..Len(out) :
                 /\ out[j] = "(backquote)\n"
                 /\ \A k \in (open + 1)..(j - 1) : out[k] # "(backquote)\n"
  IN SubSeq(out, open + 1, close - 1)

\* C9: the temporary password a create-user confirmation shows when no
\* password was given has the default length, 16, and only characters of the
\* allowed alphabet.
C9_TempPasswordShape ==
  \A p \in Procs :
    (/\ Done(p, "gw_create_user")
     /\ inv[p].params.password = None
     /\ inv[p].recv # <<>>
     /\ inv[p].recv[1].ok) =>
      LET shown == PasswordShown(inv[p].result.value)
      IN /\ Len(shown) = 16
         /\ \A i \in 1..Len(shown) : shown[i] \in AllowedAlphabet

C9_Witness ==
  \E p \in Procs :
    /\ Done(p, "gw_create_user")
    /\ inv[p].params.password = None
    /\ inv[p].recv # <<>>
    /\ inv[p].recv[1].ok
    /\ inv[p].rand # <<>>

\* C10: two invocations in flight with the same input that got the same from
\* their environment (credential file, random source, provider responses)
\* and stand at the same place have issued the same remote calls, keep the same
\* locals and hand back the same result, however the two were interleaved.
C10_NoSharedState ==
  \A p, q \in Procs :
    (/\ inv[p].pc # "idle"
     /\ inv[p].pc = inv[q].pc
     /\ inv[p].tool = inv[q].tool
     /\ inv[p].params = inv[q].params
     /\ inv[p].credCalls = inv[q].credCalls
     /\ inv[p].fileReads = inv[q].fileReads
     /\ inv[p].rand = inv[q].rand
     /\ inv[p].recv = inv[q].recv) =>
      /\ inv[p].calls = inv[q].calls
      /\ inv[p].locals = inv[q].locals
      /\ inv[p].result = inv[q].result

C10_Witness ==
  /\ Done(1, "gw_list_groups")
  /\ Done(2, "gw_list_groups")
  /\ inv[1].params = inv[2].params
  /\ inv[1].recv = inv[2].recv
  /\ inv[1].recv # <<>>
  /\ inv[1].recv[1].ok

\* What a deletion confirmation would show for the record u looked up by key.
ShownName(u) == Get(Get(u, "name", EmptyDict), "fullName", "N/A")
ShownEmail(u, key) == Get(u, "primaryEmail", key)

\* C11: a confirmed deletion is two separate remote calls, a get and then a
\* delete, and the confirmation shows the name and the email of the record the
\* get returned, whatever the directory holds when the delete is served; the
\* witness is a confirmation whose name and email differ from the record the
\* delete removed, because the record changed between the two calls.
C11_ConfirmationShowsGetData ==
  (Done(1, "gw_delete_user") /\ DeletionConfirmed(inv[1])) =>
    /\ Methods(inv[1]) = <<"users.get", "users.delete">>
    /\ inv[1].recv[1].ok
    /\ inv[1].result.value[2] = ShownName(inv[1].recv[1].value)
    /\ inv[1].result.value[4] = ShownEmail(inv[1].recv[1].value, inv[1].params.user_key)

C11_Witness ==
  /\ Done(1, "gw_delete_user")
  /\ DeletionConfirmed(inv[1])
  /\ trash # None
  /\ inv[1].recv[1].value # trash[1]
  /\ inv[1].result.value[2] # ShownName(trash[1])
  /\ inv[1].result.value[4] # ShownEmail(trash[1], inv[1].params.user_key)

\* The service handle of the invocation was obtained.
HandleObtained(f) == f.fileReads = <<"ok">>

\* C12: a list-groups invocation issues no call without a service handle and
\* exactly one call, a groups list, with one: that call carries the user key
\* and no customer identifier when a non-empty user key was given, and the
\* configured customer identifier and no user key otherwise; never both scopes,
\* never neither.
C12_ListGroupsOneScope ==
  LET f == inv[1] IN
  (f.tool = "gw_list_groups" /\ f.pc \in {"await", "done"}) =>
    /\ Len(f.calls) = (IF HandleObtained(f) THEN 1 ELSE 0)
    /\ \A i \in 1..Len(f.calls) :
         LET kw == f.calls[i].kwargs IN
         /\ f.calls[i].method = "groups.list"
         /\ ("userKey" \in DOMAIN kw) # ("customer" \in DOMAIN kw)
         /\ IF f.params.user_key # None /\ f.params.user_key[1] # ""
            THEN "userKey" \in DOMAIN kw /\ kw.userKey = f.params.user_key[1]
            ELSE "customer" \in DOMAIN kw /\ kw.customer = CUSTOMER_ID

C12_Witness ==
  /\ Done(1, "gw_list_groups")
  /\ inv[1].params.user_key = Some("a@x.com")
  /\ Len(inv[1].calls) = 1
  /\ DOMAIN inv[1].calls[1].kwargs = {"userKey", "maxResults"}
  /\ inv[1].recv[1].ok

\* The password between the backquotes of a create-user or reset-password
\* confirmation.
ConfirmedPassword(out) ==
  LET open == CHOOSE i \in 1..Len(out) :
                out[i] \in {"\n\n:key: **Password temporanea**: (backquote)",
                            "Nuova password: (backquote)"}
      close == CHOOSE j \in (open + 1)..Len(out) :
                 /\ out[j] = "(backquote)\n"
                 /\ \A k \in (open + 1)..(j - 1) : out[k] # "(backquote)\n"
  IN SubSeq(out, open + 1, close - 1)

\* The password input of a create-user or reset-password invocation.
GivenPassword(f) ==
  IF f.tool = "gw_create_user" THEN f.params.password ELSE f.params.new_password

\* C13: a create-user or reset-password invocation that succeeded made one
\* remote call, and the password its confirmation shows is the one in the body
\* of that call: the caller's password when the caller supplied one, otherwise
\* one generated by a single draw of this invocation; a password was generated
\* if and only if the caller omitted it.
C13_PasswordShownIsSent ==
  LET f == inv[1] IN
  (/\ f.pc = "done"
   /\ f.tool \in {"gw_create_user", "gw_reset_password"}
   /\ f.recv # <<>>
   /\ f.recv[Len(f.recv)].ok) =>
    LET shown == ConfirmedPassword(f.result.value) IN
    /\ Len(f.calls) = 1
    /\ shown = f.calls[1].kwargs.body.password
    /\ (f.rand # <<>>) <=> (GivenPassword(f) = None)
    /\ IF GivenPassword(f) # None
       THEN shown = GivenPassword(f)[1]
       ELSE Len(f.rand) = 1 /\ shown = generate_temp_password(DefaultLength, f.rand[1])

\* The failure that ended an invocation: "identity" for the missing
\* administrator identity, "file" for a credential file that could not be
\* loaded, "transport" for a status-coded failure of a remote call, "other"
\* for any other failure of a remote call, "" when nothing failed.
FailureOf(f) ==
  IF f.credCalls = 1 /\ f.fileReads = <<>> THEN "identity"
  ELSE IF f.fileReads # <<>> /\ f.fileReads[Len(f.fileReads)] # "ok" THEN "file"
  ELSE IF HttpFailed(f) THEN "transport"
  ELSE IF AnyFailed(f) THEN "other"
  ELSE ""

\* The class a returned diagnostic is rendered under, by its opening words.
ClassOf(res) ==
  IF res.kind # "return" \/ res.value = <<>> THEN "none"
  ELSE IF res.value[1] = "Errore configurazione: " THEN "configuration"
  ELSE IF res.value[1] = "File credenziali non trovato: " THEN "credential-file"
  ELSE IF res.value[1] = "Errore imprevisto: " THEN "unexpected"
  ELSE "transport"

\* C14: an invocation ended by a failure returns the diagnostic of the class
\* of that failure and of no other: configuration for the missing
\* administrator identity only, credential-file for a credential file that is
\* missing, unreadable or malformed, transport for a status-coded failure of a
\* remote call, unexpected for anything else.
C14_OneClassPerFailure ==
  LET f == inv[1] IN
  (f.pc = "done" /\ FailureOf(f) # "") =>
    ClassOf(f.result) = CASE FailureOf(f) = "identity" -> "configuration"
                          [] FailureOf(f) = "file" -> "credential-file"
                          [] FailureOf(f) = "transport" -> "transport"
                          [] OTHER -> "unexpected"

====
